---- MODULE Spec2Model ----
(***************************************************************************)
(* Model of the pci.ids parser of the pci_id crate: PciIds::parse_lines    *)
(* (src/src/pci_ids.rs) and its three entry points, together with the      *)
(* entities of vendor.rs / class.rs and the DeviceClass byte conversion.   *)
(*                                                                         *)
(* A line of text is a sequence of one-character strings; the input of a   *)
(* call is the sequence of lines that data.lines() yields, drawn one line  *)
(* per loop iteration from a finite set of lines.                          *)
(***************************************************************************)
EXTENDS Integers, Sequences, FiniteSets, TLC

VARIABLES
    vendors,            \* self.vendors
    classes,            \* self.classes
    skip_vendors,       \* parameter of the running parse_lines call
    skip_classes,       \* parameter of the running parse_lines call
    in_class_section,   \* local of parse_lines
    devices,            \* local scratch list of parse_lines
    subdevices,         \* local scratch list of parse_lines
    subclasses,         \* local scratch list of parse_lines
    interfaces,         \* local scratch list of parse_lines
    data,               \* the lines the loop has taken from data.lines() so far
    pc,                 \* "idle" | "scan" | "parsed" | "returned" | "panicked"
    result,             \* what parse_lines returned: "none" | "Ok" | "ParseIntError" | "panic"
    entry,              \* the entry point running: "none" | "parse_vendors" | ...
    vendors0,           \* self.vendors when the running call was entered
    classes0,           \* self.classes when the running call was entered
    calls,              \* number of entry-point calls begun so far
    first,              \* the first completed call: its entry point, text and catalog
    conv                \* a value under conversion between u8 and DeviceClass

vars == <<vendors, classes, skip_vendors, skip_classes, in_class_section,
          devices, subdevices, subclasses, interfaces, data, pc, result,
          entry, vendors0, classes0, calls, first, conv>>

-----------------------------------------------------------------------------
(* Bounds of the model.                                                    *)

\* Longest input, in lines, of one call.
MaxLines == 4

\* Longest chain of conversions applied to one value.
MaxConversions == 2

\* Most calls of parse_vendors / parse_classes made on one PciIds.
MaxCalls == 2

-----------------------------------------------------------------------------
(* Characters and strings (std: char, str).                                *)

TAB == "\t"
SP == " "

DecDigits == <<"0", "1", "2", "3", "4", "5", "6", "7", "8", "9">>
LowerHex == <<"a", "b", "c", "d", "e", "f">>
UpperHex == <<"A", "B", "C", "D", "E", "F">>

Range(s) == {s[i] : i \in 1..Len(s)}

IndexOf(s, c) == CHOOSE i \in 1..Len(s) : s[i] = c

\* char::to_digit(16): the digit's value, or -1 when c is no hex digit
ToDigit16(c) ==
    IF c \in Range(DecDigits) THEN IndexOf(DecDigits, c) - 1
    ELSE IF c \in Range(LowerHex) THEN IndexOf(LowerHex, c) + 9
    ELSE IF c \in Range(UpperHex) THEN IndexOf(UpperHex, c) + 9
    ELSE -1

\* char::is_digit(16)
IsDigit16(c) == ToDigit16(c) >= 0

\* char::is_whitespace, on the characters the lines of the model use
IsWhitespace(c) == c \in {SP, TAB, "\r", "\n"}

\* str::trim: leading and trailing whitespace removed
Trim(s) ==
    LET keep == {i \in 1..Len(s) : ~IsWhitespace(s[i])}
    IN IF keep = {} THEN <<>>
       ELSE LET lo == CHOOSE i \in keep : \A j \in keep : i <= j
                hi == CHOOSE i \in keep : \A j \in keep : j <= i
            IN SubSeq(s, lo, hi)

\* positions where pat occurs in s
Occurrences(s, pat) ==
    {i \in 1..(Len(s) - Len(pat) + 1) : SubSeq(s, i, i + Len(pat) - 1) = pat}

\* a split that takes the text before the first occurrence and the text
\* after the last one
SplitOnceGreedy(s, pat) ==
    LET occ == Occurrences(s, pat)
    IN IF occ = {} THEN [some |-> FALSE]
       ELSE LET i == CHOOSE k \in occ : \A j \in occ : k <= j
                l == CHOOSE k \in occ : \A j \in occ : j <= k
            IN [some |-> TRUE,
                before |-> SubSeq(s, 1, i - 1),
                after |-> SubSeq(s, l + Len(pat), Len(s))]

\* str::split_once: None, or the text before and after the first occurrence
SplitOnce(s, pat) ==
    LET occ == Occurrences(s, pat)
    IN IF occ = {} THEN [some |-> FALSE]
       ELSE LET i == CHOOSE k \in occ : \A j \in occ : k <= j
            IN [some |-> TRUE,
                before |-> SubSeq(s, 1, i - 1),
                after |-> SubSeq(s, i + Len(pat), Len(s))]

RECURSIVE DigitsValue(_, _)
\* value of a sequence of hex digits read left to right, acc the value so far
DigitsValue(s, acc) ==
    IF s = <<>> THEN acc
    ELSE DigitsValue(Tail(s), acc * 16 + ToDigit16(Head(s)))

\* a decoding that keeps the low bits of a value too large for the type
FromStrRadix16Wrapping(s, bits) ==
    LET digits == IF s # <<>> /\ Head(s) = "+" THEN Tail(s) ELSE s
    IN IF s = <<>> THEN [ok |-> FALSE, kind |-> "Empty"]
       ELSE IF digits = <<>> \/ \E i \in 1..Len(digits) : ~IsDigit16(digits[i])
       THEN [ok |-> FALSE, kind |-> "InvalidDigit"]
       ELSE [ok |-> TRUE, val |-> DigitsValue(digits, 0) % (2 ^ bits)]

\* uN::from_str_radix(s, 16) for an unsigned type of the given width:
\* Err on the empty string, on a lone sign, on a character that is no hex
\* digit (a leading "+" is accepted, "-" is not) and on a value that does
\* not fit in the type.
FromStrRadix16(s, bits) ==
    LET digits == IF s # <<>> /\ Head(s) = "+" THEN Tail(s) ELSE s
    IN IF s = <<>> THEN [ok |-> FALSE, kind |-> "Empty"]
       ELSE IF digits = <<>> \/ \E i \in 1..Len(digits) : ~IsDigit16(digits[i])
       THEN [ok |-> FALSE, kind |-> "InvalidDigit"]
       ELSE IF DigitsValue(digits, 0) >= 2 ^ bits
       THEN [ok |-> FALSE, kind |-> "PosOverflow"]
       ELSE [ok |-> TRUE, val |-> DigitsValue(digits, 0)]

U16FromStrRadix(s) == FromStrRadix16(s, 16)

U8FromStrRadix(s) == FromStrRadix16(s, 8)

\* str::starts_with(char)
StartsWith(s, c) == s # <<>> /\ s[1] = c

-----------------------------------------------------------------------------
(* DeviceClass (device_class.rs).                                          *)

\* enum DeviceClass: the variants
DeviceClass ==
    {"Unclassified", "MassStorageController", "NetworkController",
     "DisplayController", "MultimediaController", "MemoryController",
     "Bridge", "CommunicationController", "GenericSystemPeripheral",
     "InputDeviceController", "DockingStation", "Processor",
     "SerialBusController", "WirelessController", "IntelligentController",
     "SatelliteCommunicationsController", "EncryptionController", "SignalProcessingController",
     "ProcessingAccelerator", "NonEssentialInstrumentation", "Coprocessor",
     "Unassigned"}

\* impl TryFrom<u8> for DeviceClass: Ok(variant), or Err for an undefined byte
DeviceClassTryFrom(byte) ==
    CASE byte = 0 -> [ok |-> TRUE, val |-> "Unclassified"]
      [] byte = 1 -> [ok |-> TRUE, val |-> "MassStorageController"]
      [] byte = 2 -> [ok |-> TRUE, val |-> "NetworkController"]
      [] byte = 3 -> [ok |-> TRUE, val |-> "DisplayController"]
      [] byte = 4 -> [ok |-> TRUE, val |-> "MultimediaController"]
      [] byte = 5 -> [ok |-> TRUE, val |-> "MemoryController"]
      [] byte = 6 -> [ok |-> TRUE, val |-> "Bridge"]
      [] byte = 7 -> [ok |-> TRUE, val |-> "CommunicationController"]
      [] byte = 8 -> [ok |-> TRUE, val |-> "GenericSystemPeripheral"]
      [] byte = 9 -> [ok |-> TRUE, val |-> "InputDeviceController"]
      [] byte = 10 -> [ok |-> TRUE, val |-> "DockingStation"]
      [] byte = 11 -> [ok |-> TRUE, val |-> "Processor"]
      [] byte = 12 -> [ok |-> TRUE, val |-> "SerialBusController"]
      [] byte = 13 -> [ok |-> TRUE, val |-> "WirelessController"]
      [] byte = 14 -> [ok |-> TRUE, val |-> "IntelligentController"]
      [] byte = 15 -> [ok |-> TRUE, val |-> "SatelliteCommunicationsController"]
      [] byte = 16 -> [ok |-> TRUE, val |-> "EncryptionController"]
      [] byte = 17 -> [ok |-> TRUE, val |-> "SignalProcessingController"]
      [] byte = 18 -> [ok |-> TRUE, val |-> "ProcessingAccelerator"]
      [] byte = 19 -> [ok |-> TRUE, val |-> "NonEssentialInstrumentation"]
      [] byte = 64 -> [ok |-> TRUE, val |-> "Coprocessor"]
      [] byte = 255 -> [ok |-> TRUE, val |-> "Unassigned"]
      [] OTHER -> [ok |-> FALSE, err |-> "Invalid DeviceClass byte"]

\* the conversion to u8 as it would be if Coprocessor were numbered after
\* NonEssentialInstrumentation, as it is declared
U8FromDeviceClassInOrder(class) ==
    CASE class = "Unclassified" -> 0
      [] class = "MassStorageController" -> 1
      [] class = "NetworkController" -> 2
      [] class = "DisplayController" -> 3
      [] class = "MultimediaController" -> 4
      [] class = "MemoryController" -> 5
      [] class = "Bridge" -> 6
      [] class = "CommunicationController" -> 7
      [] class = "GenericSystemPeripheral" -> 8
      [] class = "InputDeviceController" -> 9
      [] class = "DockingStation" -> 10
      [] class = "Processor" -> 11
      [] class = "SerialBusController" -> 12
      [] class = "WirelessController" -> 13
      [] class = "IntelligentController" -> 14
      [] class = "SatelliteCommunicationsController" -> 15
      [] class = "EncryptionController" -> 16
      [] class = "SignalProcessingController" -> 17
      [] class = "ProcessingAccelerator" -> 18
      [] class = "NonEssentialInstrumentation" -> 19
      [] class = "Coprocessor" -> 20
      [] class = "Unassigned" -> 255

\* impl From<DeviceClass> for u8
U8FromDeviceClass(class) ==
    CASE class = "Unclassified" -> 0
      [] class = "MassStorageController" -> 1
      [] class = "NetworkController" -> 2
      [] class = "DisplayController" -> 3
      [] class = "MultimediaController" -> 4
      [] class = "MemoryController" -> 5
      [] class = "Bridge" -> 6
      [] class = "CommunicationController" -> 7
      [] class = "GenericSystemPeripheral" -> 8
      [] class = "InputDeviceController" -> 9
      [] class = "DockingStation" -> 10
      [] class = "Processor" -> 11
      [] class = "SerialBusController" -> 12
      [] class = "WirelessController" -> 13
      [] class = "IntelligentController" -> 14
      [] class = "SatelliteCommunicationsController" -> 15
      [] class = "EncryptionController" -> 16
      [] class = "SignalProcessingController" -> 17
      [] class = "ProcessingAccelerator" -> 18
      [] class = "NonEssentialInstrumentation" -> 19
      [] class = "Coprocessor" -> 64
      [] class = "Unassigned" -> 255

-----------------------------------------------------------------------------
(* Entities (vendor.rs, class.rs).                                         *)

\* Vendor::new
VendorNew(id, name) == [id |-> id, name |-> name, devices |-> <<>>]

\* Device::new
DeviceNew(id, name) == [id |-> id, name |-> name, subdevices |-> <<>>]

\* SubDevice::new
SubDeviceNew(subvendor_id, subdevice_id, name) ==
    [subvendor_id |-> subvendor_id, subdevice_id |-> subdevice_id, name |-> name]

\* Class::new panics unless the id is a byte DeviceClass defines
ClassNewPanics(id) == ~DeviceClassTryFrom(id).ok

\* Class::new, for an id it does not panic on
ClassNew(id) == [class |-> DeviceClassTryFrom(id).val, subclasses |-> <<>>]

\* SubClass::new
SubClassNew(id, name) == [id |-> id, name |-> name, interfaces |-> <<>>]

\* Interface::new
InterfaceNew(id, name) == [id |-> id, name |-> name]

\* if let Some(v) = self.vendors.last_mut() { v.set_devices(devices) }
SetDevicesOfLast(vs, ds) ==
    IF vs = <<>> THEN vs ELSE [vs EXCEPT ![Len(vs)].devices = ds]

\* if let Some(d) = devices.last_mut() { d.set_subdevices(subdevices) }
SetSubdevicesOfLast(ds, sds) ==
    IF ds = <<>> THEN ds ELSE [ds EXCEPT ![Len(ds)].subdevices = sds]

\* if let Some(c) = self.classes.last_mut() { c.set_subclasses(subclasses) }
SetSubclassesOfLast(cs, scs) ==
    IF cs = <<>> THEN cs ELSE [cs EXCEPT ![Len(cs)].subclasses = scs]

\* if let Some(s) = subclasses.last_mut() { s.set_interfaces(interfaces) }
SetInterfacesOfLast(scs, ifs) ==
    IF scs = <<>> THEN scs ELSE [scs EXCEPT ![Len(scs)].interfaces = ifs]

-----------------------------------------------------------------------------
(* parse_lines (pci_ids.rs).  The operators below work on a record st of   *)
(* the catalog and the locals of the call; st.flow tells how the loop      *)
(* iteration ended: "continue", "break", "ParseIntError" (the ? operator   *)
(* returned Err) or "panic" (an unwrap failed).                            *)

\* the locals as they would be if they outlived the call: the section flag
\* and the scratch lists keep what the previous call left in them
EnterParseLinesKeepingLocals(vs, cs) ==
    [vendors |-> vs, classes |-> cs, in_class_section |-> in_class_section,
     devices |-> devices, subdevices |-> subdevices, subclasses |-> subclasses,
     interfaces |-> interfaces, flow |-> "continue"]

\* the locals as parse_lines declares them, around the catalog it is given
EnterParseLines(vs, cs) ==
    [vendors |-> vs, classes |-> cs, in_class_section |-> FALSE,
     devices |-> <<>>, subdevices |-> <<>>, subclasses |-> <<>>,
     interfaces |-> <<>>, flow |-> "continue"]

\* the vendor branch as it would be if a vendor whose id is already listed
\* were merged into the listed one instead of appended
VendorLineMerging(st, id, name) ==
    LET r == U16FromStrRadix(Trim(id))
    IN IF ~r.ok THEN [st EXCEPT !.flow = "ParseIntError"]
       ELSE IF \E k \in 1..Len(st.vendors) : st.vendors[k].id = r.val
       THEN [st EXCEPT !.vendors = SetDevicesOfLast(st.vendors, st.devices),
                       !.devices = <<>>]
       ELSE [st EXCEPT
               !.vendors = Append(SetDevicesOfLast(st.vendors, st.devices),
                                  VendorNew(r.val, name)),
               !.devices = <<>>]

\* the vendor branch as it would be without devices = Vec::new()
VendorLineKeepingDevices(st, id, name) ==
    LET r == U16FromStrRadix(Trim(id))
    IN IF ~r.ok THEN [st EXCEPT !.flow = "ParseIntError"]
       ELSE [st EXCEPT
               !.vendors = Append(SetDevicesOfLast(st.vendors, st.devices),
                                  VendorNew(r.val, name))]

\* the branch of a line that starts with a hex digit, vendor section
VendorLine(st, id, name) ==
    LET r == U16FromStrRadix(Trim(id))
    IN IF ~r.ok THEN [st EXCEPT !.flow = "ParseIntError"]
       ELSE [st EXCEPT
               !.vendors = Append(SetDevicesOfLast(st.vendors, st.devices),
                                  VendorNew(r.val, name)),
               !.devices = <<>>]

\* the device branch as it would be if the subdevices scratch list were kept
\* from one device to the next
DeviceLineKeepingSubdevices(st, id, name) ==
    LET r == U16FromStrRadix(Trim(id))
    IN IF ~r.ok THEN [st EXCEPT !.flow = "ParseIntError"]
       ELSE [st EXCEPT
               !.devices = Append(SetSubdevicesOfLast(st.devices, st.subdevices),
                                  DeviceNew(r.val, name))]

\* the branch of a line with one leading tab, vendor section
DeviceLine(st, id, name) ==
    LET r == U16FromStrRadix(Trim(id))
    IN IF ~r.ok THEN [st EXCEPT !.flow = "ParseIntError"]
       ELSE [st EXCEPT
               !.devices = Append(SetSubdevicesOfLast(st.devices, st.subdevices),
                                  DeviceNew(r.val, name)),
               !.subdevices = <<>>]

\* the branch of a line with two leading tabs, vendor section
SubDeviceLine(st, id, name) ==
    LET pair == SplitOnce(id, <<SP>>)
    IN IF ~pair.some THEN [st EXCEPT !.flow = "panic"]
       ELSE LET sv == U16FromStrRadix(Trim(pair.before))
                sd == U16FromStrRadix(Trim(pair.after))
            IN IF ~sv.ok \/ ~sd.ok THEN [st EXCEPT !.flow = "ParseIntError"]
               ELSE [st EXCEPT
                       !.subdevices = Append(st.subdevices,
                                             SubDeviceNew(sv.val, sd.val, name))]

\* the C branch as it would be if a class id that DeviceClass does not
\* define were passed over
ClassLineSkippingUndefined(st, id, name, skipc) ==
    IF skipc THEN [st EXCEPT !.flow = "break"]
    ELSE LET st1 == [st EXCEPT !.in_class_section = TRUE]
             pair == SplitOnce(id, <<SP>>)
         IN IF ~pair.some THEN [st1 EXCEPT !.flow = "panic"]
            ELSE LET r == U8FromStrRadix(Trim(pair.after))
                 IN IF ~r.ok THEN [st1 EXCEPT !.flow = "ParseIntError"]
                    ELSE IF ClassNewPanics(r.val) THEN st1
                    ELSE [st1 EXCEPT
                            !.classes = Append(SetSubclassesOfLast(st.classes,
                                                                   st.subclasses),
                                               ClassNew(r.val)),
                            !.subclasses = <<>>]

\* the branch of a line that starts with C
ClassLine(st, id, name, skipc) ==
    IF skipc THEN [st EXCEPT !.flow = "break"]
    ELSE LET st1 == [st EXCEPT !.in_class_section = TRUE]
             pair == SplitOnce(id, <<SP>>)
         IN IF ~pair.some THEN [st1 EXCEPT !.flow = "panic"]
            ELSE LET r == U8FromStrRadix(Trim(pair.after))
                 IN IF ~r.ok THEN [st1 EXCEPT !.flow = "ParseIntError"]
                    ELSE IF ClassNewPanics(r.val) THEN [st1 EXCEPT !.flow = "panic"]
                    ELSE [st1 EXCEPT
                            !.classes = Append(SetSubclassesOfLast(st.classes,
                                                                   st.subclasses),
                                               ClassNew(r.val)),
                            !.subclasses = <<>>]

\* the last branch: any other line once in the class section
ClassSectionLine(st, line, id, name) ==
    LET r == U8FromStrRadix(Trim(id))
    IN IF ~r.ok THEN [st EXCEPT !.flow = "ParseIntError"]
       ELSE IF line[2] # TAB
       THEN [st EXCEPT
               !.subclasses = Append(SetInterfacesOfLast(st.subclasses,
                                                         st.interfaces),
                                     SubClassNew(r.val, name)),
               !.interfaces = <<>>]
       ELSE [st EXCEPT
               !.interfaces = Append(st.interfaces, InterfaceNew(r.val, name))]

\* a line the loop skips: a comment or an empty line
Skipped(line) == StartsWith(line, "#") \/ line = <<>>

\* the condition of the first branch as it would read without its skip flag
VendorBranchIgnoringSkip(st, char, skipv) ==
    IsDigit16(char) /\ char # "C" /\ ~st.in_class_section

\* the condition of the first branch: a vendor line
VendorBranch(st, char, skipv) ==
    ~skipv /\ IsDigit16(char) /\ char # "C" /\ ~st.in_class_section

\* the condition of the second branch as it would read without its test
\* of the section
TabBranchInAnySection(st, char, skipv) == ~skipv /\ char = TAB

\* the condition of the second branch: a tab-led line of the vendor section
TabBranch(st, char, skipv) == ~skipv /\ char = TAB /\ ~st.in_class_section

\* the condition of the third branch: a line that starts with C
ClassBranch(char) == char = "C"

\* the condition of the last branch: the class section, unless skipped
ClassSectionBranch(st, skipc) == ~skipc /\ st.in_class_section

\* the loop iteration as it would be if a comment or an empty line closed
\* the open device and the open subclass: their scratch lists emptied
ParseLineClosingSpans(st, line, skipv, skipc) ==
    IF Skipped(line)
    THEN [st EXCEPT !.subdevices = <<>>, !.interfaces = <<>>]
    ELSE LET char == line[1]
             fields == SplitOnce(line, <<SP, SP>>)
         IN IF ~fields.some THEN [st EXCEPT !.flow = "panic"]
            ELSE LET id == fields.before
                     name == Trim(fields.after)
                 IN IF VendorBranch(st, char, skipv)
                    THEN VendorLine(st, id, name)
                    ELSE IF TabBranch(st, char, skipv)
                    THEN IF line[2] # TAB
                         THEN DeviceLine(st, id, name)
                         ELSE SubDeviceLine(st, id, name)
                    ELSE IF ClassBranch(char)
                    THEN ClassLine(st, id, name, skipc)
                    ELSE IF ClassSectionBranch(st, skipc)
                    THEN ClassSectionLine(st, line, id, name)
                    ELSE st

\* one iteration of the loop over data.lines()
ParseLine(st, line, skipv, skipc) ==
    IF Skipped(line) THEN st
    ELSE LET char == line[1]
             fields == SplitOnce(line, <<SP, SP>>)
         IN IF ~fields.some THEN [st EXCEPT !.flow = "panic"]
            ELSE LET id == fields.before
                     name == Trim(fields.after)
                 IN IF VendorBranch(st, char, skipv)
                    THEN VendorLine(st, id, name)
                    ELSE IF TabBranch(st, char, skipv)
                    THEN IF line[2] # TAB
                         THEN DeviceLine(st, id, name)
                         ELSE SubDeviceLine(st, id, name)
                    ELSE IF ClassBranch(char)
                    THEN ClassLine(st, id, name, skipc)
                    ELSE IF ClassSectionBranch(st, skipc)
                    THEN ClassSectionLine(st, line, id, name)
                    ELSE st

\* the statements after the loop as they would be without the two that
\* flush the class section
FinalizeVendorsOnly(st) ==
    LET ds == SetSubdevicesOfLast(st.devices, st.subdevices)
    IN [st EXCEPT
          !.devices = ds,
          !.vendors = SetDevicesOfLast(st.vendors, ds),
          !.flow = "Ok"]

\* the statements after the loop as they would be top-down: the devices
\* attached to the last vendor before the subdevices reach the last device
FinalizeTopDown(st) ==
    LET scs == SetInterfacesOfLast(st.subclasses, st.interfaces)
    IN [st EXCEPT
          !.vendors = SetDevicesOfLast(st.vendors, st.devices),
          !.devices = SetSubdevicesOfLast(st.devices, st.subdevices),
          !.subclasses = scs,
          !.classes = SetSubclassesOfLast(st.classes, scs),
          !.flow = "Ok"]

\* the statements after the loop ("Add in the last ones")
Finalize(st) ==
    LET ds == SetSubdevicesOfLast(st.devices, st.subdevices)
        scs == SetInterfacesOfLast(st.subclasses, st.interfaces)
    IN [st EXCEPT
          !.devices = ds,
          !.vendors = SetDevicesOfLast(st.vendors, ds),
          !.subclasses = scs,
          !.classes = SetSubclassesOfLast(st.classes, scs),
          !.flow = "Ok"]

-----------------------------------------------------------------------------
(* The lines the inputs of the model are made of, written as in the       *)
(* grammar of pci.ids: id field, two spaces, name.                        *)

\* a vendor line
LVendorA == <<"0", "e", "1", "1", SP, SP, "V">>

\* a second vendor line
LVendorB == <<"0", "0", "a", "1", SP, SP, "W">>

\* a device line
LDeviceA == <<TAB, "0", "0", "4", "6", SP, SP, "D">>

\* a second device line, its name between extra blanks
LDeviceB == <<TAB, "0", "0", "0", "2", SP, SP, SP, "E", SP>>

\* a subdevice line
LSubDevA == <<TAB, TAB, "0", "e", "1", "1", SP, "4", "0", "9", "d", SP, SP, "S">>

\* a second subdevice line
LSubDevB == <<TAB, TAB, "0", "0", "a", "1", SP, "0", "0", "0", "7", SP, SP, "T">>

\* a class line (0x0c, SerialBusController)
LClassA == <<"C", SP, "0", "c", SP, SP, "B">>

\* a second class line (0x01, MassStorageController)
LClassB == <<"C", SP, "0", "1", SP, SP, "M">>

\* a subclass line
LSubClassA == <<TAB, "0", "3", SP, SP, "U">>

\* a second subclass line
LSubClassB == <<TAB, "8", "0", SP, SP, "O">>

\* an interface line
LIfaceA == <<TAB, TAB, "f", "e", SP, SP, "I">>

\* a second interface line
LIfaceB == <<TAB, TAB, "0", "0", SP, SP, "G">>

\* a comment line
LComment == <<"#", SP, "c">>

\* an empty line
LEmpty == <<>>

\* a line whose first character is no hex digit, tab or C
LJunk == <<"z", "z", SP, SP, "J">>

\* a vendor line whose id is not hexadecimal
LBadVendor == <<"0", "g", "1", "1", SP, SP, "X">>

\* a device line whose id is not hexadecimal
LBadDevice == <<TAB, "0", "x", "4", "6", SP, SP, "Y">>

\* a depth-1 line whose id is not hexadecimal
LBadSubClass == <<TAB, "z", "z", SP, SP, "Z">>

\* a class line whose id is not hexadecimal
LBadClass == <<"C", SP, "z", "z", SP, SP, "Q">>
\* the lines of the vendor section, the class lines and a subclass line
VendorSectionLines ==
    {LVendorA, LVendorB, LDeviceA, LDeviceB, LSubDevA, LSubDevB, LClassA,
     LClassB, LSubClassA, LComment}

\* lines of both sections, and lines whose id field is not hexadecimal
FaultyLines ==
    {LVendorA, LDeviceA, LSubDevA, LClassA, LSubClassA, LJunk, LBadVendor,
     LBadDevice, LBadSubClass, LBadClass}

\* a few lines of both sections
BothSectionLines ==
    {LVendorB, LDeviceA, LSubDevA, LClassA, LSubClassA, LIfaceA, LComment}

\* the lines of the class section, a vendor line, a device line, a comment
\* and an empty line
ClassSectionLines ==
    {LVendorA, LDeviceA, LClassA, LClassB, LSubClassA, LSubClassB, LIfaceA,
     LIfaceB, LComment, LEmpty}

-----------------------------------------------------------------------------
(* The state machine: one action per entry point, one per loop iteration,  *)
(* one for the end of the input, one for the entry point's return.         *)

TypeOK ==
    /\ pc \in {"idle", "scan", "parsed", "returned", "panicked"}
    /\ result \in {"none", "Ok", "ParseIntError", "panic"}
    /\ entry \in {"none", "parse_vendors", "parse_classes", "parse_pci_id_list"}
    /\ skip_vendors \in BOOLEAN /\ skip_classes \in BOOLEAN
    /\ in_class_section \in BOOLEAN
    /\ Len(data) <= MaxLines
    /\ conv.at \in {"none", "u8", "DeviceClass", "Err"}

\* PciIds::new()
Init ==
    /\ vendors = <<>>
    /\ classes = <<>>
    /\ skip_vendors = FALSE
    /\ skip_classes = FALSE
    /\ in_class_section = FALSE
    /\ devices = <<>>
    /\ subdevices = <<>>
    /\ subclasses = <<>>
    /\ interfaces = <<>>
    /\ data = <<>>
    /\ pc = "idle"
    /\ result = "none"
    /\ entry = "none"
    /\ vendors0 = <<>>
    /\ classes0 = <<>>
    /\ calls = 0
    /\ first = [done |-> FALSE]
    /\ conv = [at |-> "none"]

\* the state record of the running call
Current ==
    [vendors |-> vendors, classes |-> classes,
     in_class_section |-> in_class_section, devices |-> devices,
     subdevices |-> subdevices, subclasses |-> subclasses,
     interfaces |-> interfaces, flow |-> "continue"]

\* the variables of the call take the values of the record st
Store(st) ==
    /\ vendors' = st.vendors
    /\ classes' = st.classes
    /\ in_class_section' = st.in_class_section
    /\ devices' = st.devices
    /\ subdevices' = st.subdevices
    /\ subclasses' = st.subclasses
    /\ interfaces' = st.interfaces

\* an entry point has read the text and calls parse_lines on the catalog
\* <<vs, cs>> with the given skip flags
Enter(name, vs, cs, skipv, skipc) ==
    /\ Store(EnterParseLines(vs, cs))
    /\ skip_vendors' = skipv
    /\ skip_classes' = skipc
    /\ data' = <<>>
    /\ pc' = "scan"
    /\ result' = "none"
    /\ entry' = name
    /\ vendors0' = vs
    /\ classes0' = cs
    /\ calls' = calls + 1
    /\ UNCHANGED <<first, conv>>

\* PciIds::parse_vendors: self.parse_lines(data, false, true)
ParseVendors(from) ==
    /\ pc \in from
    /\ Enter("parse_vendors", vendors, classes, FALSE, TRUE)

\* PciIds::parse_classes: self.parse_lines(data, true, false)
ParseClasses(from) ==
    /\ pc \in from
    /\ Enter("parse_classes", vendors, classes, TRUE, FALSE)

\* PciIds::parse_pci_id_list: Self::new(), then parse_lines(data, false, false)
ParsePciIdList(from) ==
    /\ pc \in from
    /\ Enter("parse_pci_id_list", <<>>, <<>>, FALSE, FALSE)

\* the same as it would be if the break left parse_lines at once, without
\* the statements after the loop
AfterLineReturningAtBreak(st) ==
    LET fin == IF st.flow = "break" THEN [st EXCEPT !.flow = "Ok"] ELSE st
    IN /\ Store(fin)
       /\ pc' = CASE fin.flow = "continue" -> "scan"
                  [] fin.flow = "panic" -> "panicked"
                  [] OTHER -> "parsed"
       /\ result' = CASE fin.flow = "continue" -> "none"
                      [] OTHER -> fin.flow

\* how a loop iteration that ended with st.flow leaves the call
AfterLine(st) ==
    LET fin == IF st.flow = "break" THEN Finalize(st) ELSE st
    IN /\ Store(fin)
       /\ pc' = CASE fin.flow = "continue" -> "scan"
                  [] fin.flow = "panic" -> "panicked"
                  [] OTHER -> "parsed"
       /\ result' = CASE fin.flow = "continue" -> "none"
                      [] OTHER -> fin.flow

\* one iteration of the loop, on the next line of the input
ScanLine(line) ==
    /\ pc = "scan"
    /\ Len(data) < MaxLines
    /\ data' = Append(data, line)
    /\ AfterLine(ParseLine(Current, line, skip_vendors, skip_classes))
    /\ UNCHANGED <<skip_vendors, skip_classes, entry, vendors0, classes0, calls,
                   first, conv>>

\* data.lines() is exhausted: the statements after the loop, return Ok(())
EndOfInput ==
    /\ pc = "scan"
    /\ Store(Finalize(Current))
    /\ pc' = "parsed"
    /\ result' = "Ok"
    /\ UNCHANGED <<skip_vendors, skip_classes, data, entry, vendors0, classes0,
                   calls, first, conv>>

\* the entry point's .unwrap() of what parse_lines returned, then Ok
Unwrap ==
    /\ pc = "parsed"
    /\ pc' = IF result = "Ok" THEN "returned" ELSE "panicked"
    /\ UNCHANGED <<vendors, classes, skip_vendors, skip_classes,
                   in_class_section, devices, subdevices, subclasses,
                   interfaces, data, result, entry, vendors0, classes0, calls,
                   first, conv>>

\* one call of an entry point on a new PciIds, its input made of the lines L
OneCall(L) ==
    \/ ParseVendors({"idle"})
    \/ ParseClasses({"idle"})
    \/ ParsePciIdList({"idle"})
    \/ \E line \in L : ScanLine(line)
    \/ EndOfInput
    \/ Unwrap

\* one call whose input is made of vendor-section lines and a class line
Next == OneCall(VendorSectionLines)

Spec == Init /\ [][Next]_vars

\* one call whose input is made of class-section lines and a vendor line
NextClasses == OneCall(ClassSectionLines)

SpecClasses == Init /\ [][NextClasses]_vars

\* one call whose input may hold lines with an id field that is not
\* hexadecimal
NextFaulty == OneCall(FaultyLines)

SpecFaulty == Init /\ [][NextFaulty]_vars

\* the caller keeps the catalog of the call that returned and makes a
\* second PciIds with PciIds::new()
SecondPciIds ==
    /\ pc = "returned"
    /\ ~first.done
    /\ first' = [done |-> TRUE, entry |-> entry, data |-> data,
                 vendors |-> vendors, classes |-> classes]
    /\ vendors' = <<>>
    /\ classes' = <<>>
    /\ pc' = "idle"
    /\ UNCHANGED <<skip_vendors, skip_classes, in_class_section, devices,
                   subdevices, subclasses, interfaces, data, result, entry,
                   vendors0, classes0, calls, conv>>

\* the second call is made through the entry point of the first
SameEntry(name) == first.done => first.entry = name

\* the second call reads the text of the first: line is its next line
SameLine(line) ==
    first.done =>
        /\ Len(data) < Len(first.data)
        /\ line = first.data[Len(data) + 1]

\* the second call has read the whole text of the first
SameEnd == first.done => Len(data) = Len(first.data)

\* two calls of one entry point on the same text, each on its own new
\* PciIds
NextTwice ==
    \/ SameEntry("parse_vendors") /\ ParseVendors({"idle"})
    \/ SameEntry("parse_classes") /\ ParseClasses({"idle"})
    \/ SameEntry("parse_pci_id_list") /\ ParsePciIdList({"idle"})
    \/ \E line \in BothSectionLines : SameLine(line) /\ ScanLine(line)
    \/ SameEnd /\ EndOfInput
    \/ Unwrap
    \/ SecondPciIds

SpecTwice == Init /\ [][NextTwice]_vars

-----------------------------------------------------------------------------
(* What the text of an input says, read off the lines by their position:   *)
(* the catalog the claims compare the parser's catalog with.               *)

RECURSIVE LeadingTabs(_)
\* number of tab characters a line starts with
LeadingTabs(line) ==
    IF line = <<>> \/ Head(line) # TAB THEN 0 ELSE 1 + LeadingTabs(Tail(line))

\* nesting depth of a line: its leading tabs, capped at 2
Depth(line) == IF LeadingTabs(line) > 2 THEN 2 ELSE LeadingTabs(line)

\* a line that counts: neither a comment nor empty
Counted(line) == ~(line = <<>> \/ line[1] = "#")

\* a class line: C, a space, the id
IsClassLine(line) == Len(line) >= 2 /\ line[1] = "C" /\ line[2] = SP

\* the text before the first double space, without surrounding blanks
IdText(line) == Trim(SplitOnce(line, <<SP, SP>>).before)

\* the text after the first double space, without surrounding blanks
NameText(line) == Trim(SplitOnce(line, <<SP, SP>>).after)

\* the hex digits of a class line: what follows "C "
ClassIdText(line) == Trim(SubSeq(IdText(line), 3, Len(IdText(line))))

\* the two hex numbers of a subdevice line
SubvendorText(line) == Trim(SplitOnce(IdText(line), <<SP>>).before)

SubdeviceText(line) == Trim(SplitOnce(IdText(line), <<SP>>).after)

\* the number a string of hex digits denotes
HexValue(s) == DigitsValue(s, 0)

RECURSIVE Ascending(_)
\* the elements of a finite set of numbers, in increasing order
Ascending(S) ==
    IF S = {} THEN <<>>
    ELSE LET m == CHOOSE x \in S : \A y \in S : x <= y
         IN <<m>> \o Ascending(S \ {m})

\* index of the first class line of the text, Len(text) + 1 if it has none
ClassSectionStart(text) ==
    LET cls == {i \in 1..Len(text) : IsClassLine(text[i])}
    IN IF cls = {} THEN Len(text) + 1
       ELSE CHOOSE i \in cls : \A j \in cls : i <= j

\* end of the span of the line at i: the index of the next counted line of
\* depth d or less, Len(text) + 1 if there is none
SpanEnd(text, i, d) ==
    LET nxt == {j \in (i + 1)..Len(text) : Counted(text[j]) /\ Depth(text[j]) <= d}
    IN IF nxt = {} THEN Len(text) + 1
       ELSE CHOOSE j \in nxt : \A k \in nxt : j <= k

\* the counted lines of depth d inside the span of the line at i (of depth d - 1)
Children(text, i, d) ==
    Ascending({j \in (i + 1)..(SpanEnd(text, i, d - 1) - 1) :
                 Counted(text[j]) /\ Depth(text[j]) = d})

\* the depth-0 lines of the vendor section
VendorLinesOf(text) ==
    Ascending({i \in 1..(ClassSectionStart(text) - 1) :
                 Counted(text[i]) /\ Depth(text[i]) = 0})

\* the class lines
ClassLinesOf(text) == Ascending({i \in 1..Len(text) : IsClassLine(text[i])})

\* the subdevices the text lists under the device line at j
TextSubDevices(text, j) ==
    LET sd == Children(text, j, 2)
    IN [m \in 1..Len(sd) |->
          [subvendor_id |-> HexValue(SubvendorText(text[sd[m]])),
           subdevice_id |-> HexValue(SubdeviceText(text[sd[m]])),
           name |-> NameText(text[sd[m]])]]

\* the devices the text lists under the vendor line at i
TextDevices(text, i) ==
    LET dv == Children(text, i, 1)
    IN [m \in 1..Len(dv) |->
          [id |-> HexValue(IdText(text[dv[m]])),
           name |-> NameText(text[dv[m]]),
           subdevices |-> TextSubDevices(text, dv[m])]]

\* the vendors the text lists
TextVendors(text) ==
    LET vl == VendorLinesOf(text)
    IN [k \in 1..Len(vl) |->
          [id |-> HexValue(IdText(text[vl[k]])),
           name |-> NameText(text[vl[k]]),
           devices |-> TextDevices(text, vl[k])]]

\* the interfaces the text lists under the subclass line at j
TextInterfaces(text, j) ==
    LET fs == Children(text, j, 2)
    IN [m \in 1..Len(fs) |->
          [id |-> HexValue(IdText(text[fs[m]])),
           name |-> NameText(text[fs[m]])]]

\* the subclasses the text lists under the class line at i
TextSubClasses(text, i) ==
    LET sc == Children(text, i, 1)
    IN [m \in 1..Len(sc) |->
          [id |-> HexValue(IdText(text[sc[m]])),
           name |-> NameText(text[sc[m]]),
           interfaces |-> TextInterfaces(text, sc[m])]]

\* the classes the text lists, each by its id byte
TextClasses(text) ==
    LET cl == ClassLinesOf(text)
    IN [k \in 1..Len(cl) |->
          [id |-> HexValue(ClassIdText(text[cl[k]])),
           subclasses |-> TextSubClasses(text, cl[k])]]

\* a list of entities without the children of its elements
Flat(list) == [k \in 1..Len(list) |-> [id |-> list[k].id, name |-> list[k].name]]

\* a vendor list down to the devices, without subdevices
VendorsAndDevices(vs) ==
    [k \in 1..Len(vs) |->
       [id |-> vs[k].id, name |-> vs[k].name, devices |-> Flat(vs[k].devices)]]

\* a class list by id byte, with the subclasses and their interfaces
ClassesById(cs) ==
    [k \in 1..Len(cs) |->
       [id |-> U8FromDeviceClass(cs[k].class), subclasses |-> cs[k].subclasses]]

\* a class list by id byte down to the subclasses, without interfaces
ClassesAndSubClasses(cs) ==
    [k \in 1..Len(cs) |->
       [id |-> cs[k].id, subclasses |-> Flat(cs[k].subclasses)]]

\* a full parse has completed: parse_pci_id_list returned the catalog
FullParseDone == pc = "returned" /\ entry = "parse_pci_id_list"

\* a parse that includes the class section has completed
ClassParseDone ==
    pc = "returned" /\ entry \in {"parse_pci_id_list", "parse_classes"}

-----------------------------------------------------------------------------
(* The claims.                                                             *)

\* C1: after a full parse into an empty PciIds the catalog holds, under
\* every device of every vendor, the subdevices of the depth-2 lines that
\* follow the device line up to the next line of depth 1 or 0, in file
\* order, whatever line ends that span.
C1_SubDevicesUnderEveryDevice ==
    FullParseDone => vendors = TextVendors(data)

\* C2: after a parse that includes the class section the catalog holds,
\* under every subclass of every class, the interfaces of the depth-2 lines
\* that follow the subclass line up to the next line of depth 1 or 0, in
\* file order, whatever line ends that span.
C2_InterfacesUnderEverySubClass ==
    ClassParseDone => ClassesById(classes) = TextClasses(data)

\* C3: after a full parse vendors() holds one Vendor per depth-0 line of the
\* vendor section, in file order, with the line's id and trimmed name, and
\* classes() one Class per C line, in file order; equal ids are neither
\* merged nor reordered.
C3_TopLevelListsFollowTheFile ==
    FullParseDone =>
        /\ Flat(vendors) = Flat(TextVendors(data))
        /\ [k \in 1..Len(classes) |-> U8FromDeviceClass(classes[k].class)]
             = [k \in 1..Len(TextClasses(data)) |-> TextClasses(data)[k].id]

\* C3 witness: a full parse of two vendor lines with the same id followed by
\* two class lines whose ids come in decreasing order
C3_Witness ==
    /\ FullParseDone
    /\ Len(vendors) = 2 /\ vendors[1].id = vendors[2].id
    /\ Len(classes) = 2
    /\ U8FromDeviceClass(classes[1].class) > U8FromDeviceClass(classes[2].class)

\* C4: after a full parse each Vendor's devices() is the sequence of the
\* depth-1 lines between the vendor's line and the next depth-0 line (or the
\* end of input), in file order, each with its id and trimmed name.
C4_DevicesOfEachVendor ==
    FullParseDone =>
        VendorsAndDevices(vendors) = VendorsAndDevices(TextVendors(data))

\* C4 witness: a full parse that left two vendors, each with a device
C4_Witness ==
    /\ FullParseDone
    /\ Len(vendors) = 2
    /\ vendors[1].devices # <<>> /\ vendors[2].devices # <<>>

\* C5: after a parse that includes the class section each Class's
\* subclasses() is the sequence of the depth-1 lines between the class's C
\* line and the next C line (or the end of input), in file order, each with
\* its id and trimmed name.
C5_SubClassesOfEachClass ==
    ClassParseDone =>
        ClassesAndSubClasses(ClassesById(classes))
            = ClassesAndSubClasses(TextClasses(data))

\* the index of the last class line of a text that has one
LastClassLine(text) ==
    CHOOSE i \in 1..Len(text) :
        IsClassLine(text[i]) /\ \A j \in (i + 1)..Len(text) : ~IsClassLine(text[j])

\* the depth-1 lines after the last class line
LastSubClassLines(text) ==
    {j \in (LastClassLine(text) + 1)..Len(text) :
        Counted(text[j]) /\ Depth(text[j]) = 1}

\* the index of the last depth-1 line after the last class line
LastSubClassLine(text) ==
    CHOOSE j \in LastSubClassLines(text) : \A k \in LastSubClassLines(text) : k <= j

\* the text ends inside the span of a subclass: it has a class line, a
\* depth-1 line after the last class line, and nothing but depth-2 lines,
\* comments and empty lines after that one
EndsInsideSubClass(text) ==
    /\ \E i \in 1..Len(text) : IsClassLine(text[i])
    /\ LastSubClassLines(text) # {}
    /\ \A j \in (LastSubClassLine(text) + 1)..Len(text) :
          Counted(text[j]) => Depth(text[j]) = 2

\* C6: when the input ends inside the class section, the finalization
\* attaches the open interfaces to the last SubClass and the open subclasses
\* to the last Class: the last class, its last subclass and that subclass's
\* interfaces are in the final catalog.
C6_EndOfInputFlushesClassSection ==
    (ClassParseDone /\ EndsInsideSubClass(data)) =>
        LET c == LastClassLine(data)
            u == LastSubClassLine(data)
        IN /\ classes # <<>>
           /\ U8FromDeviceClass(classes[Len(classes)].class)
                = HexValue(ClassIdText(data[c]))
           /\ classes[Len(classes)].subclasses # <<>>
           /\ LET scs == classes[Len(classes)].subclasses
              IN scs[Len(scs)] = [id |-> HexValue(IdText(data[u])),
                                  name |-> NameText(data[u]),
                                  interfaces |-> TextInterfaces(data, u)]

\* C6 witness: a classes-only parse whose input ended on an interface line,
\* the last subclass holding that interface
C6_Witness ==
    /\ pc = "returned" /\ entry = "parse_classes"
    /\ EndsInsideSubClass(data)
    /\ Depth(data[Len(data)]) = 2
    /\ classes # <<>>
    /\ classes[Len(classes)].subclasses # <<>>
    /\ LET scs == classes[Len(classes)].subclasses
       IN scs[Len(scs)].interfaces # <<>>

\* the text has a vendor section and a class section
HasBothSections(text) ==
    VendorLinesOf(text) # <<>> /\ ClassLinesOf(text) # <<>>

\* C7: on an input with both sections, from an empty PciIds, parse_classes
\* ends with no vendor and some class, parse_vendors with some vendor and no
\* class.
C7_SkipFlagsSelectOneHalf ==
    (pc = "returned" /\ HasBothSections(data)) =>
        /\ entry = "parse_classes" => (vendors = <<>> /\ classes # <<>>)
        /\ entry = "parse_vendors" => (vendors # <<>> /\ classes = <<>>)

\* C7 witness: parse_vendors returned after it met the class line of an
\* input that has both sections
C7_Witness ==
    /\ pc = "returned" /\ entry = "parse_vendors"
    /\ HasBothSections(data)
    /\ vendors # <<>>

IsHexText(s) == s # <<>> /\ \A i \in 1..Len(s) : IsDigit16(s[i])

\* the id field of a counted line is hexadecimal: one hex number, or "C "
\* and a hex number, or two hex numbers with a space between them
IdFieldIsHex(line) ==
    /\ SplitOnce(line, <<SP, SP>>).some
    /\ \/ IsHexText(IdText(line))
       \/ IsClassLine(line) /\ IsHexText(ClassIdText(line))
       \/ /\ SplitOnce(IdText(line), <<SP>>).some
          /\ IsHexText(SubvendorText(line))
          /\ IsHexText(SubdeviceText(line))

\* C9: a counted line whose id field is not hexadecimal makes the parse
\* fail; it is never silently skipped.  Stated for the full parse: a full
\* parse that returned Ok has met no such line.
C9_InvalidIdFailsTheParse ==
    (result = "Ok" /\ entry = "parse_pci_id_list") =>
        \A i \in 1..Len(data) : Counted(data[i]) => IdFieldIsHex(data[i])

\* C10: when a parse fails, the PciIds the call was filling holds nothing of
\* the lines before the failing one: its vendor and class lists are what
\* they were when the call was entered.
C10_FailedParseLeavesCatalogUntouched ==
    (result \in {"ParseIntError", "panic"}
        /\ entry \in {"parse_vendors", "parse_classes"})
        => (vendors = vendors0 /\ classes = classes0)

-----------------------------------------------------------------------------
(* Lines that lack a separator, lines made of blanks only, and a vendor    *)
(* line whose id starts with the upper-case hex digit C.                   *)

\* a vendor line with one space where the double space should be
LNoSeparator == <<"0", "e", "1", "1", SP, "V">>

\* a subdevice line with no space between its two ids
LSubDevNoSpace == <<TAB, TAB, "0", "e", "1", "1", "4", "0", "9", "d", SP, SP, "S">>

\* a class line with no space after the C
LClassNoSpace == <<"C", "0", "c", SP, SP, "B">>

\* a depth-0 line whose id is the hex number C0DE
LHexC == <<"C", "0", "D", "E", SP, SP, "N">>

\* a line made of one space
LBlank == <<SP>>

\* a line made of one tab
LTabOnly == <<TAB>>

\* a line made of three spaces
LSpaces == <<SP, SP, SP>>

\* well-formed lines of both sections among lines without separator and
\* lines of blanks
MalformedLines ==
    {LVendorA, LSubDevA, LClassA, LSubClassA, LNoSeparator, LSubDevNoSpace,
     LClassNoSpace, LHexC, LBlank, LTabOnly, LSpaces}

\* one call whose input may hold lines without separator or of blanks only
NextMalformed == OneCall(MalformedLines)

SpecMalformed == Init /\ [][NextMalformed]_vars

\* the line has no two consecutive spaces
NoDoubleSpace(line) == Occurrences(line, <<SP, SP>>) = {}

\* a line of blanks only (or empty)
Blank(line) == Trim(line) = <<>>

\* the line at i is counted, not blank, and lacks a separator the call needs:
\* the double space; or, for a line of two tabs before the class section in a call
\* that reads vendors, the space between the two ids; or, for a line that
\* starts with C in a call that reads classes, the space after the C
MalformedLineAt(text, i) ==
    LET line == text[i]
    IN /\ Counted(line)
       /\ ~Blank(line)
       /\ \/ NoDoubleSpace(line)
          \/ /\ LeadingTabs(line) >= 2
             /\ i < ClassSectionStart(text)
             /\ entry # "parse_classes"
             /\ Occurrences(IdText(line), <<SP>>) = {}
          \/ /\ line[1] = "C"
             /\ entry # "parse_vendors"
             /\ ~IsClassLine(line)

\* C11: a counted line, not blank, that lacks the double space (or the space between
\* the two ids of a subdevice line, or the space after the C of a class
\* line) ends the parse with a malformed-line failure value: the call does
\* not panic, and what it returns is neither Ok nor the invalid-integer
\* error.
C11_MalformedLineIsAFailureValue ==
    \A i \in 1..Len(data) :
        MalformedLineAt(data, i) =>
            /\ pc # "panicked"
            /\ result \notin {"none", "Ok", "ParseIntError"}

-----------------------------------------------------------------------------
\* C12: an entry point returns to its caller, with a catalog or with a
\* failure value: when parse_lines has returned the invalid-integer error,
\* the call of the entry point does not panic.
C12_ParseFailureIsReturned ==
    result = "ParseIntError" => pc # "panicked"

-----------------------------------------------------------------------------
(* The name of a device class (device_class.rs), and lines whose name or   *)
(* id field tests the splitting and the decoding of the fields.            *)

\* impl fmt::Display for DeviceClass: the text written for each variant
DeviceClassDisplay(class) ==
    CASE class = "Unclassified" ->
          <<"U", "n", "c", "l", "a", "s", "s", "i", "f", "i", "e", "d">>
      [] class = "MassStorageController" ->
          <<"M", "a", "s", "s", SP, "S", "t", "o", "r", "a", "g", "e", SP,
            "C", "o", "n", "t", "r", "o", "l", "l", "e", "r">>
      [] class = "NetworkController" ->
          <<"N", "e", "t", "w", "o", "r", "k", SP, "C", "o", "n", "t", "r",
            "o", "l", "l", "e", "r">>
      [] class = "DisplayController" ->
          <<"D", "i", "s", "p", "l", "a", "y", SP, "C", "o", "n", "t", "r",
            "o", "l", "l", "e", "r">>
      [] class = "MultimediaController" ->
          <<"M", "u", "l", "t", "i", "m", "e", "d", "i", "a", SP, "C", "o",
            "n", "t", "r", "o", "l", "l", "e", "r">>
      [] class = "MemoryController" ->
          <<"M", "e", "m", "o", "r", "y", SP, "C", "o", "n", "t", "r", "o",
            "l", "l", "e", "r">>
      [] class = "Bridge" ->
          <<"B", "r", "i", "d", "g", "e">>
      [] class = "CommunicationController" ->
          <<"C", "o", "m", "m", "u", "n", "i", "c", "a", "t", "i", "o", "n",
            SP, "C", "o", "n", "t", "r", "o", "l", "l", "e", "r">>
      [] class = "GenericSystemPeripheral" ->
          <<"G", "e", "n", "e", "r", "i", "c", SP, "S", "y", "s", "t", "e",
            "m", SP, "P", "e", "r", "i", "p", "h", "e", "r", "a", "l">>
      [] class = "InputDeviceController" ->
          <<"I", "n", "p", "u", "t", SP, "D", "e", "v", "i", "c", "e", SP,
            "C", "o", "n", "t", "r", "o", "l", "l", "e", "r">>
      [] class = "DockingStation" ->
          <<"D", "o", "c", "k", "i", "n", "g", SP, "S", "t", "a", "t", "i",
            "o", "n">>
      [] class = "Processor" ->
          <<"P", "r", "o", "c", "e", "s", "s", "o", "r">>
      [] class = "Coprocessor" ->
          <<"C", "o", "p", "r", "o", "c", "e", "s", "s", "o", "r">>
      [] class = "SerialBusController" ->
          <<"S", "e", "r", "i", "a", "l", SP, "B", "u", "s", SP, "C", "o",
            "n", "t", "r", "o", "l", "l", "e", "r">>
      [] class = "WirelessController" ->
          <<"W", "i", "r", "e", "l", "e", "s", "s", SP, "C", "o", "n", "t",
            "r", "o", "l", "l", "e", "r">>
      [] class = "IntelligentController" ->
          <<"I", "n", "t", "e", "l", "l", "i", "g", "e", "n", "t", SP, "C",
            "o", "n", "t", "r", "o", "l", "l", "e", "r">>
      [] class = "SatelliteCommunicationsController" ->
          <<"S", "a", "t", "e", "l", "l", "i", "t", "e", SP, "C", "o", "m",
            "m", "u", "n", "i", "c", "a", "t", "i", "o", "n", "s", SP, "C",
            "o", "n", "t", "r", "o", "l", "l", "e", "r">>
      [] class = "EncryptionController" ->
          <<"E", "n", "c", "r", "y", "p", "t", "i", "o", "n", SP, "C", "o",
            "n", "t", "r", "o", "l", "l", "e", "r">>
      [] class = "SignalProcessingController" ->
          <<"S", "i", "g", "n", "a", "l", SP, "P", "r", "o", "c", "e", "s",
            "s", "i", "n", "g", SP, "C", "o", "n", "t", "r", "o", "l", "l",
            "e", "r">>
      [] class = "ProcessingAccelerator" ->
          <<"P", "r", "o", "c", "e", "s", "s", "i", "n", "g", SP, "A", "c",
            "c", "e", "l", "e", "r", "a", "t", "o", "r", "s">>
      [] class = "NonEssentialInstrumentation" ->
          <<"N", "o", "n", SP, "E", "s", "s", "e", "n", "t", "i", "a", "l",
            SP, "I", "n", "s", "t", "r", "u", "m", "e", "n", "t", "a", "t",
            "i", "o", "n">>
      [] class = "Unassigned" ->
          <<"U", "n", "a", "s", "s", "i", "g", "n", "e", "d">>

\* a vendor line whose name holds a double space
LVendorGap == <<"0", "e", "1", "1", SP, SP, "A", SP, SP, "B">>

\* a subclass line whose name holds a double space and ends with a blank
LSubClassGap == <<TAB, "0", "3", SP, SP, "U", SP, SP, "X", SP>>

\* the class line of pci.ids for class 0c
LClassSerial ==
    <<"C", SP, "0", "c", SP, SP, "S", "e", "r", "i", "a", "l", SP, "b", "u",
      "s", SP, "c", "o", "n", "t", "r", "o", "l", "l", "e", "r">>

\* a vendor line whose id needs 17 bits
LWideVendor == <<"1", "0", "0", "0", "0", SP, SP, "V">>

\* a device line whose id needs 17 bits
LWideDevice == <<TAB, "1", "0", "0", "4", "6", SP, SP, "D">>

\* a subdevice line whose second id needs 17 bits
LWideSubDev ==
    <<TAB, TAB, "0", "e", "1", "1", SP, "1", "4", "0", "9", "d", SP, SP, "S">>

\* a class line whose id needs 9 bits
LWideClass == <<"C", SP, "1", "0", "c", SP, SP, "B">>

\* a subclass line whose id needs 9 bits
LWideSubClass == <<TAB, "1", "0", "3", SP, SP, "U">>

\* an interface line whose id needs 9 bits
LWideIface == <<TAB, TAB, "1", "f", "e", SP, SP, "I">>

\* lines whose name holds blanks and lines whose id is too wide for its type
FieldLines ==
    {LVendorGap, LDeviceB, LSubDevA, LClassSerial, LSubClassGap, LIfaceA,
     LWideVendor, LWideDevice, LWideSubDev, LWideClass, LWideSubClass,
     LWideIface}

\* one call whose input tests the splitting and decoding of the fields
NextFields == OneCall(FieldLines)

SpecFields == Init /\ [][NextFields]_vars

\* C13: the name exposed for the class of a C line is the text of that line
\* after the double space, trimmed.  Stated right after a C line has been
\* processed: the class it made is the last of the list, and the name that
\* class displays is the name field of the line.
C13_ClassNameIsTheTextOfItsLine ==
    (pc = "scan" /\ data # <<>> /\ IsClassLine(data[Len(data)])) =>
        /\ classes # <<>>
        /\ DeviceClassDisplay(classes[Len(classes)].class)
              = NameText(data[Len(data)])

-----------------------------------------------------------------------------
(* The byte conversion of DeviceClass on its own: a u8 or a variant is     *)
(* chosen, and TryFrom<u8> and From<DeviceClass> are applied in turn.      *)

\* a byte or a variant is chosen; no parse is running
InitConvert ==
    /\ vendors = <<>>
    /\ classes = <<>>
    /\ skip_vendors = FALSE
    /\ skip_classes = FALSE
    /\ in_class_section = FALSE
    /\ devices = <<>>
    /\ subdevices = <<>>
    /\ subclasses = <<>>
    /\ interfaces = <<>>
    /\ data = <<>>
    /\ pc = "idle"
    /\ result = "none"
    /\ entry = "none"
    /\ vendors0 = <<>>
    /\ classes0 = <<>>
    /\ calls = 0
    /\ first = [done |-> FALSE]
    /\ \/ \E b \in 0..255 :
            conv = [from |-> "u8", origin |-> b, at |-> "u8", val |-> b,
                    steps |-> 0]
       \/ \E c \in DeviceClass :
            conv = [from |-> "DeviceClass", origin |-> c, at |-> "DeviceClass",
                    val |-> c, steps |-> 0]

\* DeviceClass::try_from(byte)
TryFromU8 ==
    /\ conv.at = "u8"
    /\ conv.steps < MaxConversions
    /\ LET r == DeviceClassTryFrom(conv.val)
       IN conv' = IF r.ok
                  THEN [conv EXCEPT !.at = "DeviceClass", !.val = r.val,
                                    !.steps = @ + 1]
                  ELSE [conv EXCEPT !.at = "Err", !.val = r.err,
                                    !.steps = @ + 1]
    /\ UNCHANGED <<vendors, classes, skip_vendors, skip_classes,
                   in_class_section, devices, subdevices, subclasses,
                   interfaces, data, pc, result, entry, vendors0, classes0,
                   calls, first>>

\* u8::from(class)
U8From ==
    /\ conv.at = "DeviceClass"
    /\ conv.steps < MaxConversions
    /\ conv' = [conv EXCEPT !.at = "u8", !.val = U8FromDeviceClass(conv.val),
                            !.steps = @ + 1]
    /\ UNCHANGED <<vendors, classes, skip_vendors, skip_classes,
                   in_class_section, devices, subdevices, subclasses,
                   interfaces, data, pc, result, entry, vendors0, classes0,
                   calls, first>>

NextConvert == TryFromU8 \/ U8From

SpecConvert == InitConvert /\ [][NextConvert]_vars

\* the ids the declaration of the enum gives its variants ("// ID: 00" to
\* "// ID: 13", "// ID: 40", "// ID: ff")
DefinedIds == (0..19) \cup {64, 255}

-----------------------------------------------------------------------------
\* the text holds a counted line that starts with C
SeenC(text) ==
    \E i \in 1..Len(text) : Counted(text[i]) /\ text[i][1] = "C"

\* what C15 says of one step of a running parse_lines
SectionFlagStep ==
    pc = "scan" =>
        /\ in_class_section => in_class_section'
        /\ (SeenC(data') /\ ~skip_classes) => in_class_section'
        /\ SeenC(data) =>
              /\ in_class_section
              /\ Len(vendors') = Len(vendors)
              /\ Len(devices') = Len(devices)
              /\ Len(subdevices') = Len(subdevices)
              /\ data' # data =>
                    /\ vendors' = vendors
                    /\ devices' = devices
                    /\ subdevices' = subdevices

\* C15: the section flag is one-way.  Within a run of parse_lines
\* in_class_section never goes from true to false; it is true once a line
\* that starts with C has been processed; and from then on no step makes a
\* Vendor, a Device or a SubDevice or appends to devices or subdevices,
\* whatever the line starts with.
C15_SectionFlagIsOneWay == [][SectionFlagStep]_vars

\* a vendor line or a device line has been processed after a class line,
\* in a call that had read a vendor before
C15_Witness ==
    /\ pc = "scan"
    /\ vendors # <<>>
    /\ \E i, j \in 1..Len(data) :
          /\ i < j
          /\ IsClassLine(data[i])
          /\ data[j] \in {LVendorB, LDeviceA}

-----------------------------------------------------------------------------
\* a depth-0 line whose id field is one hex number that starts with the
\* digit C: not "C", a space and an id
HexCLine(line) ==
    /\ Counted(line)
    /\ line[1] = "C"
    /\ ~IsClassLine(line)
    /\ ~NoDoubleSpace(line)
    /\ IsHexText(IdText(line))

\* C16: the class section begins only at a line that starts with C and a
\* space.  Stated of a call that reads vendors and whose last line so far,
\* before any class line, is a depth-0 line whose id is a hex number
\* starting with C: the call has not failed, it is still in the vendor
\* section, and the line has made the last vendor of the list, with the id
\* and the name of the line.
C16_HexCLineIsAVendorLine ==
    (/\ data # <<>>
     /\ HexCLine(data[Len(data)])
     /\ Len(data) < ClassSectionStart(data)
     /\ entry \in {"parse_vendors", "parse_pci_id_list"}) =>
        /\ result \in {"none", "Ok"}
        /\ ~in_class_section
        /\ vendors # <<>>
        /\ vendors[Len(vendors)].id = HexValue(IdText(data[Len(data)]))
        /\ vendors[Len(vendors)].name = NameText(data[Len(data)])

-----------------------------------------------------------------------------
\* a line the grammar ignores: a comment, or a line that is empty once its
\* trailing whitespace is removed
Ignorable(line) == StartsWith(line, "#") \/ Blank(line)

\* C17: a comment and a line of blanks are skipped and never make the parse
\* fail.  A failure stops the scan at the line that caused it, so: the last
\* line of a call that failed or panicked is no comment and no blank line.
C17_IgnorableLineNeverFails ==
    result \in {"ParseIntError", "panic"} => ~Ignorable(data[Len(data)])

-----------------------------------------------------------------------------
(* Everything the call holds, in the catalog or in a scratch list.         *)

\* the devices attached to a vendor or waiting in the scratch list
StoredDevices ==
    Range(devices) \cup UNION {Range(v.devices) : v \in Range(vendors)}

\* the subdevices attached to a device or waiting in the scratch list
StoredSubDevices ==
    Range(subdevices) \cup UNION {Range(d.subdevices) : d \in StoredDevices}

\* the subclasses attached to a class or waiting in the scratch list
StoredSubClasses ==
    Range(subclasses) \cup UNION {Range(c.subclasses) : c \in Range(classes)}

\* the interfaces attached to a subclass or waiting in the scratch list
StoredInterfaces ==
    Range(interfaces) \cup UNION {Range(s.interfaces) : s \in StoredSubClasses}

\* the text has a counted line of depth d with this name
NamedAtDepth(text, name, d) ==
    \E i \in 1..Len(text) :
        /\ Counted(text[i])
        /\ Depth(text[i]) = d
        /\ NameText(text[i]) = name

\* C18: the depth the builder acts on is the number of leading tabs of the
\* line, capped at 2, in both sections: every device and every subclass the
\* call holds was made from a line of one tab, every subdevice and every
\* interface from a line of two tabs or more, every vendor from a line
\* without tab.  In particular no line without tab makes a SubClass.
C18_DepthIsTheLeadingTabs ==
    /\ \A v \in Range(vendors) : NamedAtDepth(data, v.name, 0)
    /\ \A d \in StoredDevices : NamedAtDepth(data, d.name, 1)
    /\ \A s \in StoredSubDevices : NamedAtDepth(data, s.name, 2)
    /\ \A s \in StoredSubClasses : NamedAtDepth(data, s.name, 1)
    /\ \A f \in StoredInterfaces : NamedAtDepth(data, f.name, 2)

-----------------------------------------------------------------------------
(* The two fields of a line, read off its characters by position.          *)

\* position of the first of the first two consecutive spaces of the line
FirstDoubleSpace(line) ==
    CHOOSE i \in 1..(Len(line) - 1) :
        /\ line[i] = SP /\ line[i + 1] = SP
        /\ \A j \in 1..(i - 1) : ~(line[j] = SP /\ line[j + 1] = SP)

RECURSIVE Strip(_)
\* the text without the blanks at its two ends
Strip(s) ==
    IF s = <<>> THEN s
    ELSE IF Head(s) \in {SP, TAB} THEN Strip(Tail(s))
    ELSE IF s[Len(s)] \in {SP, TAB} THEN Strip(SubSeq(s, 1, Len(s) - 1))
    ELSE s

\* the characters before the first double space, without the blanks around
TextBeforeSeparator(line) ==
    Strip([k \in 1..(FirstDoubleSpace(line) - 1) |-> line[k]])

\* the characters after the first double space, without the blanks around
TextAfterSeparator(line) ==
    Strip([k \in 1..(Len(line) - FirstDoubleSpace(line) - 1) |->
             line[FirstDoubleSpace(line) + 1 + k]])

\* what C19 says of the step that takes a line and goes on scanning: the
\* entity the step has added to a list has the name and the id of the line
FieldSplitStep ==
    (pc = "scan" /\ data' # data /\ pc' = "scan") =>
        LET line == data'[Len(data')]
            name == TextAfterSeparator(line)
            id == HexValue(TextBeforeSeparator(line))
        IN /\ Len(vendors') = Len(vendors) + 1 =>
                 /\ vendors'[Len(vendors')].name = name
                 /\ vendors'[Len(vendors')].id = id
           /\ Len(devices') = Len(devices) + 1 =>
                 /\ devices'[Len(devices')].name = name
                 /\ devices'[Len(devices')].id = id
           /\ Len(subdevices') = Len(subdevices) + 1 =>
                 subdevices'[Len(subdevices')].name = name
           /\ Len(subclasses') = Len(subclasses) + 1 =>
                 /\ subclasses'[Len(subclasses')].name = name
                 /\ subclasses'[Len(subclasses')].id = id
           /\ Len(interfaces') = Len(interfaces) + 1 =>
                 /\ interfaces'[Len(interfaces')].name = name
                 /\ interfaces'[Len(interfaces')].id = id

\* C19: the id field of a line is the text before its first double space,
\* the name the text after it without the blanks around; a later double
\* space inside the name does not move the split, and the entity stored for
\* the line has exactly that name.
C19_FieldsSplitAtFirstDoubleSpace == [][FieldSplitStep]_vars

\* a vendor and a subclass are stored whose names hold a double space
C19_Witness ==
    /\ vendors # <<>>
    /\ vendors[1].name = <<"A", SP, SP, "B">>
    /\ \E s \in StoredSubClasses : s.name = <<"U", SP, SP, "X">>

-----------------------------------------------------------------------------
\* the call decodes the id field of the line at i: a line of the vendor
\* section in a call that reads vendors, a line of the class section in a
\* call that reads classes
Decoded(text, i) ==
    IF i < ClassSectionStart(text) THEN entry \in {"parse_vendors", "parse_pci_id_list"}
    ELSE entry \in {"parse_classes", "parse_pci_id_list"}

\* the largest id of the section the line at i is in: 16 bits in the vendor
\* section, 8 bits in the class section
LargestId(text, i) == IF i < ClassSectionStart(text) THEN 2 ^ 16 - 1 ELSE 2 ^ 8 - 1

\* the hex numbers of the id field of the line at i
IdTexts(text, i) ==
    LET line == text[i]
    IN IF IsClassLine(line) THEN {ClassIdText(line)}
       ELSE IF /\ i < ClassSectionStart(text)
               /\ LeadingTabs(line) >= 2
               /\ Occurrences(IdText(line), <<SP>>) # {}
       THEN {SubvendorText(line), SubdeviceText(line)}
       ELSE {IdText(line)}

\* the line at i has an id that is a hex number too large for its section
TooWide(text, i) ==
    /\ Counted(text[i])
    /\ ~NoDoubleSpace(text[i])
    /\ \E t \in IdTexts(text, i) : IsHexText(t) /\ HexValue(t) > LargestId(text, i)

\* the text has a counted line with this name whose id field has this value
LineOf(text, name, id) ==
    \E i \in 1..Len(text) :
        /\ Counted(text[i])
        /\ NameText(text[i]) = name
        /\ HexValue(IdText(text[i])) = id

\* the text has a counted line with this name and these two ids
SubDeviceLineOf(text, s) ==
    \E i \in 1..Len(text) :
        /\ Counted(text[i])
        /\ LeadingTabs(text[i]) >= 2
        /\ NameText(text[i]) = s.name
        /\ HexValue(SubvendorText(text[i])) = s.subvendor_id
        /\ HexValue(SubdeviceText(text[i])) = s.subdevice_id

\* the text has a class line with this id
ClassLineOf(text, id) ==
    \E i \in 1..Len(text) :
        IsClassLine(text[i]) /\ HexValue(ClassIdText(text[i])) = id

\* C20: decoding never truncates or wraps.  A line whose id is too large
\* for its type, 16 bits in the vendor section and 8 bits in the class
\* section, is the last line the call reads and parse_lines returns the
\* invalid-integer error; every id the call holds is within its type and is
\* the number its line spells.
C20_DecodingNeverWraps ==
    /\ \A i \in 1..Len(data) :
          (Decoded(data, i) /\ TooWide(data, i)) =>
              (i = Len(data) /\ result = "ParseIntError")
    /\ \A v \in Range(vendors) :
          v.id \in 0..(2 ^ 16 - 1) /\ LineOf(data, v.name, v.id)
    /\ \A d \in StoredDevices :
          d.id \in 0..(2 ^ 16 - 1) /\ LineOf(data, d.name, d.id)
    /\ \A s \in StoredSubDevices :
          /\ s.subvendor_id \in 0..(2 ^ 16 - 1)
          /\ s.subdevice_id \in 0..(2 ^ 16 - 1)
          /\ SubDeviceLineOf(data, s)
    /\ \A c \in Range(classes) :
          /\ U8FromDeviceClass(c.class) \in 0..(2 ^ 8 - 1)
          /\ ClassLineOf(data, U8FromDeviceClass(c.class))
    /\ \A s \in StoredSubClasses :
          s.id \in 0..(2 ^ 8 - 1) /\ LineOf(data, s.name, s.id)
    /\ \A f \in StoredInterfaces :
          f.id \in 0..(2 ^ 8 - 1) /\ LineOf(data, f.name, f.id)

\* a call that holds the vendor 0x0e11 has failed on a device line whose id
\* needs 17 bits
C20_Witness ==
    /\ result = "ParseIntError"
    /\ vendors # <<>>
    /\ vendors[1].id = HexValue(<<"0", "e", "1", "1">>)
    /\ data[Len(data)] = LWideDevice

-----------------------------------------------------------------------------
(* Several calls of parse_vendors and parse_classes on one PciIds.         *)

\* one well-formed line of each kind
SeqLines == {LVendorA, LDeviceA, LSubDevA, LClassA, LSubClassA, LIfaceA}

\* calls of parse_vendors and parse_classes, one after the other, on the
\* PciIds the first call was made on
NextSeq ==
    \/ calls < MaxCalls /\ ParseVendors({"idle", "returned"})
    \/ calls < MaxCalls /\ ParseClasses({"idle", "returned"})
    \/ \E line \in SeqLines : ScanLine(line)
    \/ EndOfInput
    \/ Unwrap

SpecSeq == Init /\ [][NextSeq]_vars

\* C21: each call touches only its own half of the catalog.  While and
\* after parse_classes runs, the vendor list is what it was when the call
\* was entered, devices and subdevices included; while and after
\* parse_vendors runs, the class list is what it was when the call was
\* entered, subclasses and interfaces included.
C21_EachCallTouchesItsOwnHalf ==
    /\ entry = "parse_classes" => vendors = vendors0
    /\ entry = "parse_vendors" => classes = classes0

-----------------------------------------------------------------------------
(* Class lines whose id is a byte DeviceClass does not define.             *)

\* a class line with the undefined id 0x14
LUndefinedClass == <<"C", SP, "1", "4", SP, SP, "R">>

\* a class line with the undefined id 0xfe
LUndefinedClassB == <<"C", SP, "f", "e", SP, SP, "K">>

\* lines of both sections and class lines with an undefined id
UndefinedClassLines ==
    {LVendorA, LDeviceA, LClassA, LClassB, LSubClassA, LIfaceA,
     LUndefinedClass, LUndefinedClassB}

\* one call whose input may hold a class line with an undefined id
NextUndefined == OneCall(UndefinedClassLines)

SpecUndefined == Init /\ [][NextUndefined]_vars

\* a class line whose id is 8-bit hex but none of the defined ids
UndefinedClassLine(line) ==
    /\ IsClassLine(line)
    /\ ~NoDoubleSpace(line)
    /\ IsHexText(ClassIdText(line))
    /\ HexValue(ClassIdText(line)) <= 2 ^ 8 - 1
    /\ HexValue(ClassIdText(line)) \notin DefinedIds

\* C22: Class::new panics on an id DeviceClass does not define, so a call
\* that reads classes aborts at a C line with such an id: that line is the
\* last one read, the call has panicked without returning a value, and the
\* class list holds one Class per C line before it and none for it.
C22_UndefinedClassIdPanics ==
    \A i \in 1..Len(data) :
        (UndefinedClassLine(data[i]) /\ entry # "parse_vendors") =>
            /\ i = Len(data)
            /\ pc = "panicked"
            /\ result = "panic"
            /\ Len(classes) = Cardinality({j \in 1..(i - 1) : IsClassLine(data[j])})

\* a parse that had stored a class and a subclass has panicked at a class
\* line with an undefined id
C22_Witness ==
    /\ pc = "panicked"
    /\ Len(data) = 3
    /\ UndefinedClassLine(data[3])
    /\ Len(classes) = 1
    /\ subclasses # <<>>

-----------------------------------------------------------------------------
\* what C23 says of one step of a running parse_lines: when the step
\* attaches the devices scratch list to a vendor, the last device of the
\* attached list carries the open subdevices; the same for subclasses and
\* interfaces; and an entity that is no longer the last of its list is not
\* changed
MaterializedStep ==
    pc = "scan" =>
        /\ (Len(vendors') = Len(vendors) + 1 /\ vendors # <<>> /\ devices # <<>>) =>
              vendors'[Len(vendors)].devices[Len(devices)].subdevices = subdevices
        /\ (Len(classes') = Len(classes) + 1 /\ classes # <<>> /\ subclasses # <<>>) =>
              classes'[Len(classes)].subclasses[Len(subclasses)].interfaces
                 = interfaces
        /\ (result' = "Ok" /\ ~skip_vendors /\ vendors # <<>> /\ devices # <<>>) =>
              vendors'[Len(vendors)].devices[Len(devices)].subdevices = subdevices
        /\ (result' = "Ok" /\ ~skip_classes /\ classes # <<>> /\ subclasses # <<>>) =>
              classes'[Len(classes)].subclasses[Len(subclasses)].interfaces
                 = interfaces
        /\ \A k \in 1..(Len(vendors) - 1) : vendors'[k] = vendors[k]
        /\ \A k \in 1..(Len(classes) - 1) : classes'[k] = classes[k]

\* C23: children are fully materialized before they are attached.  At every
\* step that attaches the devices scratch list to a Vendor, at a vendor
\* line or at the end, the open subdevices are in the last Device of that
\* list; at every step that attaches subclasses to a Class, the open
\* interfaces are in the last SubClass; and an attached entity is not
\* changed afterwards.
C23_ChildrenMaterializedBeforeAttach == [][MaterializedStep]_vars

-----------------------------------------------------------------------------
\* C24: the vendor branch still open when the scan leaves the vendor
\* section is not dropped.  When a call that reads vendors has ended with
\* Ok, at the end of the input, after a class section, or at the first C
\* line of a vendors-only parse, its last vendor is the last vendor of the
\* text: it has the devices listed under it and each device, the last one
\* too, has the subdevices listed under it.
C24_OpenVendorBranchIsKept ==
    (result = "Ok" /\ entry \in {"parse_vendors", "parse_pci_id_list"}
        /\ vendors # <<>>) =>
        /\ TextVendors(data) # <<>>
        /\ vendors[Len(vendors)] = TextVendors(data)[Len(TextVendors(data))]

\* a vendors-only parse has stopped at a C line and its last vendor's last
\* device has a subdevice
C24_Witness ==
    /\ pc = "returned"
    /\ entry = "parse_vendors"
    /\ data # <<>>
    /\ IsClassLine(data[Len(data)])
    /\ vendors # <<>>
    /\ vendors[Len(vendors)].devices # <<>>
    /\ LET ds == vendors[Len(vendors)].devices
       IN ds[Len(ds)].subdevices # <<>>

-----------------------------------------------------------------------------
\* list is ahead, unchanged, of the longer list
IsPrefix(list, longer) ==
    /\ Len(list) <= Len(longer)
    /\ SubSeq(longer, 1, Len(list)) = list

\* C25: parsing again into a PciIds that is not empty only appends.  While
\* and after parse_vendors runs, the vendors stored by earlier calls are
\* still at the head of the vendor list, each with its id, its name and all
\* its devices and subdevices; the same for parse_classes and the class
\* list.
C25_ReparsingOnlyAppends ==
    /\ entry = "parse_vendors" => IsPrefix(vendors0, vendors)
    /\ entry = "parse_classes" => IsPrefix(classes0, classes)

-----------------------------------------------------------------------------
\* two calls on the same text, each through any entry point and each on its
\* own new PciIds; the second call reads the text as far as its scan goes
NextPair ==
    \/ ParseVendors({"idle"})
    \/ ParseClasses({"idle"})
    \/ ParsePciIdList({"idle"})
    \/ \E line \in BothSectionLines : SameLine(line) /\ ScanLine(line)
    \/ SameEnd /\ EndOfInput
    \/ Unwrap
    \/ SecondPciIds

SpecPair == Init /\ [][NextPair]_vars

\* the two calls were the given partial parse and the full parse, in either
\* order, and both have returned
PartialAndFull(partial) ==
    /\ first.done
    /\ pc = "returned"
    /\ {first.entry, entry} = {partial, "parse_pci_id_list"}

\* C26: partial parses agree with the full parse.  On a text that both
\* calls parse with Ok, parse_vendors on an empty PciIds leaves the vendor
\* list that parse_pci_id_list leaves, and parse_classes the class list
\* that parse_pci_id_list leaves.
C26_PartialParsesAgreeWithFull ==
    /\ PartialAndFull("parse_vendors") => vendors = first.vendors
    /\ PartialAndFull("parse_classes") => classes = first.classes

\* a full parse and a vendors-only parse of a text with both sections have
\* returned, with a vendor that has a device with a subdevice
C26_Witness ==
    /\ PartialAndFull("parse_vendors")
    /\ first.classes # <<>> \/ classes # <<>>
    /\ vendors # <<>>
    /\ vendors[1].devices # <<>>
    /\ vendors[1].devices[1].subdevices # <<>>

-----------------------------------------------------------------------------
(* Parents and children.                                                   *)

\* two lines of every kind and depth; no line without tab that the class
\* section could decode
HierarchyLines ==
    {LVendorA, LDeviceA, LDeviceB, LSubDevA, LSubDevB, LClassA, LClassB,
     LSubClassA, LSubClassB, LIfaceA, LIfaceB}

\* one call on a text that nests lines of every depth in both sections
NextHierarchy == OneCall(HierarchyLines)

SpecHierarchy == Init /\ [][NextHierarchy]_vars

RECURSIVE IsSubSeq(_, _)
\* the elements of a are elements of b, in the order of b
IsSubSeq(a, b) ==
    IF a = <<>> THEN TRUE
    ELSE IF b = <<>> THEN FALSE
    ELSE IF Head(a) = Head(b) THEN IsSubSeq(Tail(a), Tail(b))
    ELSE IsSubSeq(a, Tail(b))

\* every vendor has the devices the text lists under its line, and every
\* device has no subdevice but those the text lists under its line
VendorChildrenUnderTheirParent ==
    LET tv == TextVendors(data)
    IN /\ Len(vendors) = Len(tv)
       /\ \A k \in 1..Len(vendors) :
             /\ Flat(vendors[k].devices) = Flat(tv[k].devices)
             /\ \A m \in 1..Len(vendors[k].devices) :
                   IsSubSeq(vendors[k].devices[m].subdevices,
                            tv[k].devices[m].subdevices)

\* every class has the subclasses the text lists under its line, and every
\* subclass has no interface but those the text lists under its line
ClassChildrenUnderTheirParent ==
    LET tc == TextClasses(data)
    IN /\ Len(classes) = Len(tc)
       /\ \A k \in 1..Len(classes) :
             /\ Flat(classes[k].subclasses) = Flat(tc[k].subclasses)
             /\ \A m \in 1..Len(classes[k].subclasses) :
                   IsSubSeq(classes[k].subclasses[m].interfaces,
                            tc[k].subclasses[m].interfaces)

\* C27: no child is attached to the wrong parent.  After a parse into an
\* empty PciIds that ended with Ok, a Device is under the Vendor of the
\* nearest depth-0 line before its line, a SubDevice under the Device of
\* the nearest depth-1 line before its line within that vendor, and the
\* same for SubClass and Interface; a child line without such a parent is
\* under no entity.
C27_NoChildUnderWrongParent ==
    result = "Ok" =>
        /\ entry \in {"parse_vendors", "parse_pci_id_list"} =>
              VendorChildrenUnderTheirParent
        /\ entry \in {"parse_classes", "parse_pci_id_list"} =>
              ClassChildrenUnderTheirParent

\* a parse has returned on a text that begins with a device line without
\* vendor, followed by a vendor with a device and its subdevice
C27_Witness ==
    /\ pc = "returned"
    /\ Len(data) = 4
    /\ Depth(data[1]) = 1
    /\ Len(vendors) = 1
    /\ Len(vendors[1].devices) = 1
    /\ vendors[1].devices[1].subdevices # <<>>

-----------------------------------------------------------------------------
(* The line at which a vendors-only parse stops.                           *)

\* a class line that ends after its id: no double space, no name
LClassBare == <<"C", SP, "0", "c">>

\* vendor-section lines, and lines that start with C: well-formed, with an
\* id that is not hexadecimal, without the space after the C, without name
SkipLines ==
    {LVendorA, LDeviceA, LSubDevA, LClassA, LSubClassA, LBadClass,
     LClassNoSpace, LClassBare}

\* one call whose input may hold a malformed line that starts with C
NextSkip == OneCall(SkipLines)

SpecSkip == Init /\ [][NextSkip]_vars

\* C28: in skip-class-section mode the scan stops at the first line that
\* starts with C, and nothing at or after that line can make the call
\* fail: when the last line parse_vendors has read starts with C,
\* parse_lines has returned Ok and the vendor list is the one of the lines
\* before it.
C28_VendorsOnlyStopsAtFirstC ==
    (entry = "parse_vendors" /\ data # <<>> /\ data[Len(data)][1] = "C") =>
        /\ result = "Ok"
        /\ Flat(vendors) = Flat(TextVendors(SubSeq(data, 1, Len(data) - 1)))

-----------------------------------------------------------------------------
(* A text and the same text without its comment and empty lines.           *)

\* one line of each kind, a comment and an empty line
CommentedLines ==
    {LVendorA, LDeviceA, LSubDevA, LClassA, LSubClassA, LIfaceA, LComment,
     LEmpty}

\* the text without its comment lines and empty lines
Uncommented(text) == SelectSeq(text, Counted)

\* the second call reads the text of the first without its comment and
\* empty lines: line is its next line
UncommentedLine(line) ==
    first.done =>
        /\ Len(data) < Len(Uncommented(first.data))
        /\ line = Uncommented(first.data)[Len(data) + 1]

\* the second call has read all of that text
UncommentedEnd == first.done => Len(data) = Len(Uncommented(first.data))

\* a call on a text, then a call of the same entry point, on a new PciIds,
\* on that text without its comment and empty lines
NextUncommented ==
    \/ SameEntry("parse_vendors") /\ ParseVendors({"idle"})
    \/ SameEntry("parse_classes") /\ ParseClasses({"idle"})
    \/ SameEntry("parse_pci_id_list") /\ ParsePciIdList({"idle"})
    \/ \E line \in CommentedLines : UncommentedLine(line) /\ ScanLine(line)
    \/ UncommentedEnd /\ EndOfInput
    \/ Unwrap
    \/ SecondPciIds

SpecUncommented == Init /\ [][NextUncommented]_vars

\* the second call has returned from the uncommented text of the first
UncommentedParseDone ==
    /\ first.done
    /\ pc = "returned"
    /\ entry = first.entry
    /\ data = Uncommented(first.data)

\* what C29 says of one step: the step that takes a comment or an empty
\* line leaves the flag, the scratch lists and the catalog as they are and
\* the scan goes on; and a call that has returned from the uncommented
\* text has the catalog of the call on the text
SkipStep ==
    /\ (pc = "scan" /\ data' # data /\ Skipped(data'[Len(data')])) =>
          /\ pc' = "scan"
          /\ UNCHANGED <<vendors, classes, in_class_section, devices,
                         subdevices, subclasses, interfaces>>
    /\ UncommentedParseDone' =>
          (vendors' = first'.vendors /\ classes' = first'.classes)

\* C29: skipping a comment or an empty line changes nothing.  The step
\* that skips it leaves in_class_section, the four scratch lists and the
\* catalog unchanged, so it does not close the span of an open parent; and
\* the parse of a text gives the catalog that the parse of the same text
\* without its comment and empty lines gives.
C29_SkippedLineChangesNothing == [][SkipStep]_vars

\* both calls have returned, the first from a text with a comment or an
\* empty line between a device line and its subdevice line
C29_Witness ==
    /\ UncommentedParseDone
    /\ Len(first.data) = 4
    /\ first.data[2] = LDeviceA
    /\ ~Counted(first.data[3])
    /\ first.data[4] = LSubDevA
    /\ vendors # <<>>
    /\ vendors[1].devices # <<>>
    /\ vendors[1].devices[1].subdevices # <<>>

====
